---- MODULE Spec2Model ----
(***************************************************************************)
(* Model of the voice-assessment pipeline of the language-learning bot:    *)
(* assessVoice (services/assessmentService.js) with the collaborators it   *)
(* drives: transcribeAudio / gradeTranscript (services/openaiService.js)   *)
(* and the Firestore-backed store (services/firebaseService.js).           *)
(*                                                                         *)
(* Text is a sequence of tokens (labels, single digits, "/100", blanks,    *)
(* newlines, commas, words); an empty sequence is the empty string.        *)
(* avgScore is held in tenths (Math.round(avg * 10) / 10 keeps one         *)
(* decimal).  A timestamp is [day, tick]: day is the UTC calendar day,     *)
(* tick orders the instants.                                               *)
(***************************************************************************)
EXTENDS Integers, Sequences, FiniteSets, TLC

\* ------------------------------------------------------------ bounds ----

\* Transient collaborator failures the environment may inject in one run.
MaxFailures == 4

\* The calendar advances at most to this day.
MaxDay == 4

\* parse on its own: any text of up to MaxLen tokens, and scores of up to
\* MaxDigits digits.
MaxLen == 3

MaxDigits == 3

\* Callbacks one handler process serves in one run.
MaxCallbacks == 2

\* The completion buttons that exist are those of lessons 1..MaxLesson.
MaxLesson == 2

\* calculateStreak on its own: the earlier assessments lie on days 1..StreakDays.
StreakDays == 5

\* ----------------------------------------------------- program constants

MaxRetries == 3

Delays == <<100, 200, 400>>

RetryOnceDelay == 1000

DefaultLimit == 50

StreakLimit == 100

\* -------------------------------------------------------------- text ----

SP == " "

NL == "\n"

Digits == {"0", "1", "2", "3", "4", "5", "6", "7", "8", "9"}

DigitVal(d) ==
  CASE d = "0" -> 0 [] d = "1" -> 1 [] d = "2" -> 2 [] d = "3" -> 3
    [] d = "4" -> 4 [] d = "5" -> 5 [] d = "6" -> 6 [] d = "7" -> 7
    [] d = "8" -> 8 [] d = "9" -> 9

\* \s of the regular expressions
IsSpace(t) == t \in {SP, NL}

\* The /i flag: a label matches in either case.
IsLabel(t, label) ==
  \/ t = label
  \/ label = "SCORE:" /\ t = "score:"
  \/ label = "FEEDBACK:" /\ t = "feedback:"
  \/ label = "STRENGTHS:" /\ t = "strengths:"
  \/ label = "WEAK_AREAS:" /\ t = "weak_areas:"

\* The response of a completion whose message content is null.
NullText == <<"<null>">>

RECURSIVE Trim(_)
\* String.prototype.trim
Trim(s) ==
  IF s = <<>> THEN s
  ELSE IF IsSpace(Head(s)) THEN Trim(Tail(s))
  ELSE IF IsSpace(s[Len(s)]) THEN Trim(SubSeq(s, 1, Len(s) - 1))
  ELSE s

RECURSIVE SplitComma(_, _)
\* String.prototype.split(','): cur is the piece being read
SplitComma(s, cur) ==
  IF s = <<>> THEN <<cur>>
  ELSE IF Head(s) = "," THEN <<cur>> \o SplitComma(Tail(s), <<>>)
  ELSE SplitComma(Tail(s), Append(cur, Head(s)))

RECURSIVE MapTrimFilter(_)
\* .map(s => s.trim()).filter(s => s.length > 0)
MapTrimFilter(parts) ==
  IF parts = <<>> THEN <<>>
  ELSE LET h == Trim(Head(parts))
       IN  (IF h = <<>> THEN <<>> ELSE <<h>>) \o MapTrimFilter(Tail(parts))

\* str.trim() ... .split(',').map(trim).filter(nonempty)
ListOf(str) == MapTrimFilter(SplitComma(Trim(str), <<>>))

RECURSIVE ParseInt(_, _)
\* parseInt(digits, 10), acc is the value read so far
ParseInt(ds, acc) ==
  IF ds = <<>> THEN acc ELSE ParseInt(Tail(ds), acc * 10 + DigitVal(Head(ds)))

\* First index >= i of s that is not white space (Len(s) + 1 if none).
RECURSIVE SkipSpace(_, _)
SkipSpace(s, i) ==
  IF i > Len(s) \/ ~IsSpace(s[i]) THEN i ELSE SkipSpace(s, i + 1)

\* First index >= i of s that is not a digit (Len(s) + 1 if none).
RECURSIVE SkipDigits(_, _)
SkipDigits(s, i) ==
  IF i > Len(s) \/ s[i] \notin Digits THEN i ELSE SkipDigits(s, i + 1)

\* /SCORE:\s*(\d+)\/100/i tried at position i: the captured digits, or <<>>.
ScoreAt(s, i) ==
  IF ~IsLabel(s[i], "SCORE:") THEN <<>>
  ELSE LET d == SkipSpace(s, i + 1)
           e == SkipDigits(s, d)
       IN  IF e > d /\ e <= Len(s) /\ s[e] = "/100" THEN SubSeq(s, d, e - 1)
           ELSE <<>>

\* llmResponse.match(/SCORE:\s*(\d+)\/100/i): the leftmost match, <<>> if none.
ScoreMatch(s) ==
  LET hits == {i \in 1..Len(s) : ScoreAt(s, i) # <<>>}
  IN  IF hits = {} THEN <<>>
      ELSE ScoreAt(s, CHOOSE i \in hits : \A j \in hits : i <= j)

\* The lazy group (.+?) from position k, ended by the lookahead: the first
\* index m >= k such that what follows s[m] is a stop token or the end.
RECURSIVE LazyEnd(_, _, _)
LazyEnd(s, m, stops) ==
  IF m >= Len(s) THEN Len(s)
  ELSE IF \E l \in stops : IsLabel(s[m + 1], l) THEN m
  ELSE LazyEnd(s, m + 1, stops)

\* /LABEL:\s*(.+?)(?=stops|$)/is : the capture of the leftmost match, as
\* <<capture>>, or <<>> when nothing matches.  \s* is greedy and gives back
\* one blank when the text ends after the blanks.
SectionMatch(s, label, stops) ==
  LET hits == {i \in 1..Len(s) : IsLabel(s[i], label) /\ i < Len(s)}
  IN  IF hits = {} THEN <<>>
      ELSE LET i == CHOOSE h \in hits : \A j \in hits : h <= j
               k == SkipSpace(s, i + 1)
               from == IF k > Len(s) THEN Len(s) ELSE k
           IN  <<SubSeq(s, from, LazyEnd(s, from, stops))>>

\* Mutant of Min: the upper clamp is lost.
MinIsSecond(a, b) == b

Min(a, b) == IF a < b THEN a ELSE b

Max(a, b) == IF a > b THEN a ELSE b

\* parseGradingResponse
parseGradingResponse(llmResponse) ==
  IF llmResponse = NullText
  THEN [score |-> 0,
        feedback |-> <<"Unable to process assessment. Please try again.">>,
        strengths |-> <<>>,
        weakAreas |-> <<<<"Assessment parsing error">>>>]
  ELSE LET scoreMatch == ScoreMatch(llmResponse)
           score == IF scoreMatch # <<>> THEN ParseInt(scoreMatch, 0) ELSE 0
           feedbackMatch ==
             SectionMatch(llmResponse, "FEEDBACK:", {NL, "STRENGTHS:", "WEAK_AREAS:"})
           strengthsMatch ==
             SectionMatch(llmResponse, "STRENGTHS:", {NL, "WEAK_AREAS:"})
           weakAreasMatch == SectionMatch(llmResponse, "WEAK_AREAS:", {})
       IN  [score |-> Min(100, Max(0, score)),
            feedback |-> IF feedbackMatch # <<>> THEN Trim(feedbackMatch[1])
                         ELSE <<"No feedback available">>,
            strengths |-> IF strengthsMatch # <<>> THEN ListOf(strengthsMatch[1])
                          ELSE <<>>,
            weakAreas |-> IF weakAreasMatch # <<>> THEN ListOf(weakAreasMatch[1])
                          ELSE <<>>]

\* ------------------------------------------------------------- data ----

Procs == {1, 2}

\* The callback handlers that may run at the same time.
Handlers == {"h1", "h2"}

UserIds == {"u1", "u2"}

Languages == {"en", "es", "fr", "de"}

\* What the transcription collaborator may recognise.
Transcripts == {<<>>, <<SP>>, <<"hola">>}

WellFormed ==
  <<"SCORE:", SP, "8", "5", "/100", NL, "FEEDBACK:", SP, "Great", SP, "job!", NL,
    "STRENGTHS:", SP, "clarity", ",", SP, "pace", NL, "WEAK_AREAS:", SP, "grammar">>

NoScore == <<"FEEDBACK:", SP, "ok">>

BlankFeedback == <<"score:", SP, "1", "5", "0", "/100", NL, "FEEDBACK:", SP>>

\* What the grading collaborator may answer.
Responses == {WellFormed, NoScore, BlankFeedback, NullText}

\* All the sequences of up to n elements of T.
SeqUpTo(T, n) == UNION {[1..k -> T] : k \in 0..n}

\* The tokens short texts are made of.
Tokens ==
  {"SCORE:", "FEEDBACK:", "STRENGTHS:", "WEAK_AREAS:", "7", "/100", SP, NL, ",", "a"}

\* Texts with a SCORE section: with or without a blank, any digits.
ScoreTexts ==
  {<<"SCORE:">> \o sp \o ds \o <<"/100">> :
     sp \in {<<>>, <<SP>>}, ds \in SeqUpTo({"0", "1", "5", "9"}, MaxDigits) \ {<<>>}}

\* The four labels.
Labels == {"SCORE:", "FEEDBACK:", "STRENGTHS:", "WEAK_AREAS:"}

\* Texts with the four labelled sections: in any order, separated by a newline
\* or a blank, with lists of one or two items, on one line or two, with
\* empty items, or empty.
FourSections ==
  LET body(l, st, wk) ==
        CASE l = "SCORE:" -> <<SP, "8", "5", "/100">>
          [] l = "FEEDBACK:" -> <<SP, "Great", SP, "job!">>
          [] l = "STRENGTHS:" -> st
          [] l = "WEAK_AREAS:" -> wk
      section(l, st, wk) == <<l>> \o body(l, st, wk)
  IN  {section(o[1], st, wk) \o sep \o section(o[2], st, wk) \o sep
         \o section(o[3], st, wk) \o sep \o section(o[4], st, wk) :
         o \in {f \in [1..4 -> Labels] : \A i, j \in 1..4 : i # j => f[i] # f[j]},
         sep \in {<<NL>>, <<SP>>},
         st \in {<<SP, "clarity", ",", SP, "pace">>, <<SP, "clarity", ",", NL, "pace">>,
                 <<SP, ",", "pace", ",">>, <<>>},
         wk \in {<<SP, "grammar">>, <<SP, "grammar", ",", SP, "tense">>}}

\* The texts parseGradingResponse is applied to on its own.
ParseInputs == SeqUpTo(Tokens, MaxLen) \cup ScoreTexts \cup FourSections \cup Responses

\* The parameters of a well-formed call for user u with audio of n bytes.
GoodParams(u, n) ==
  [userId |-> u, lessonDay |-> 1, targetLanguage |-> "es", audioBuffer |-> n,
   lessonWords |-> 5, expectedAnswer |-> <<"Practice">>, nativeLanguage |-> "he"]

\* The calls made: well-formed ones, and ones with a single malformed field.
InputParams ==
  {GoodParams(u, n) : u \in UserIds, n \in {0, 1}}
    \cup {[GoodParams("u1", 1) EXCEPT !.userId = ""],
          [GoodParams("u1", 1) EXCEPT !.lessonDay = 0],
          [GoodParams("u1", 1) EXCEPT !.targetLanguage = "it"],
          [GoodParams("u1", 1) EXCEPT !.lessonWords = 0],
          [GoodParams("u1", 1) EXCEPT !.expectedAnswer = <<>>]}

\* Mutant of assessmentParamsSchema: the lessonWords array may be empty.
assessmentParamsSchemaAnyWords(q) ==
  /\ q.userId # ""
  /\ q.lessonDay >= 1
  /\ q.targetLanguage \in Languages
  /\ q.expectedAnswer # <<>>

\* assessmentParamsSchema (audioBuffer: Joi.binary() accepts an empty buffer)
assessmentParamsSchema(q) ==
  /\ q.userId # ""
  /\ q.lessonDay >= 1
  /\ q.targetLanguage \in Languages
  /\ q.lessonWords >= 1
  /\ q.expectedAnswer # <<>>

\* Mutant of assessmentSchema: the score must be positive.
assessmentSchemaPositiveScore(a) ==
  /\ a.userId # ""
  /\ a.lessonDay >= 1
  /\ a.targetLanguage \in Languages
  /\ a.score >= 1 /\ a.score <= 100
  /\ a.transcript # <<>>
  /\ a.expectedAnswer # <<>>
  /\ a.feedback # <<>>

\* assessmentSchema (Joi.string().required() rejects the empty string)
assessmentSchema(a) ==
  /\ a.userId # ""
  /\ a.lessonDay >= 1
  /\ a.targetLanguage \in Languages
  /\ a.score >= 0 /\ a.score <= 100
  /\ a.transcript # <<>>
  /\ a.expectedAnswer # <<>>
  /\ a.feedback # <<>>
  /\ \A i \in 1..Len(a.strengths) : a.strengths[i] # <<>>
  /\ \A i \in 1..Len(a.weakAreas) : a.weakAreas[i] # <<>>

\* A users document that does not exist.
NoDoc == [exists |-> FALSE]

\* The settings every profile is created with; nothing changes them later.
Settings == [lessonTime |-> "09:00", notificationEnabled |-> TRUE]

\* handleLanguageSelection: ctx.from.first_name || ctx.from.username || 'User'
\* (u1 has a first name, u2 has neither a first name nor a username).
UserName(u) == IF u = "u1" THEN "Dana" ELSE "User"

\* The profile of u1, created by handleLanguageSelection under its name.
Profile(lang, day, total, str, avg) ==
  [name |-> UserName("u1"), targetLanguage |-> lang, lessonDay |-> day,
   totalLessons |-> total, streak |-> str, avgScore |-> avg, settings |-> Settings]

\* The fields of a users document the model keeps (telegramId is its key;
\* nativeLanguage and createdAt are not kept, and no input carries them).
ProfileFields ==
  {"name", "targetLanguage", "lessonDay", "totalLessons", "streak", "avgScore",
   "settings"}

\* userSchema: does the data pass?  (avgScore is in tenths.)  telegramId,
\* name and targetLanguage are required; Joi.string().required() rejects the
\* empty string.
userSchema(d) ==
  /\ DOMAIN d \subseteq ProfileFields \cup {"telegramId"}
  /\ "telegramId" \in DOMAIN d /\ d.telegramId # ""
  /\ "name" \in DOMAIN d /\ d.name # ""
  /\ "targetLanguage" \in DOMAIN d /\ d.targetLanguage \in Languages
  /\ "lessonDay" \in DOMAIN d => d.lessonDay >= 1
  /\ "totalLessons" \in DOMAIN d => d.totalLessons >= 0
  /\ "streak" \in DOMAIN d => d.streak >= 0
  /\ "avgScore" \in DOMAIN d => d.avgScore >= 0 /\ d.avgScore <= 1000
  /\ "settings" \in DOMAIN d => d.settings = Settings

\* userSchema: the .default() of a field that may be left out (name has
\* none: data that passes carries it).
DefaultOf(f) == IF f = "lessonDay" THEN 1 ELSE IF f = "settings" THEN Settings ELSE 0

\* validation.value of userSchema, less the key: the data given, with the
\* default of every field left out.
Validated(d) ==
  [f \in ProfileFields |-> IF f \in DOMAIN d THEN d[f] ELSE DefaultOf(f)]

\* doc.set(data, {merge: true}): the fields of data replace those of the
\* document, the other fields stay; a missing document is created.
SetMerge(doc, data) ==
  IF doc = NoDoc THEN data
  ELSE [f \in DOMAIN doc \cup DOMAIN data |->
          IF f \in DOMAIN data THEN data[f] ELSE doc[f]]

\* doc.update(updates) on an existing document.
Update(doc, updates) ==
  [f \in DOMAIN doc \cup DOMAIN updates |->
     IF f \in DOMAIN updates THEN updates[f] ELSE doc[f]]

\* handleLanguageSelection: the userData it builds.
NewUserData(u, lang) ==
  [telegramId |-> u, name |-> UserName(u), targetLanguage |-> lang, lessonDay |-> 1,
   streak |-> 0, totalLessons |-> 0, avgScore |-> 0, settings |-> Settings]

\* Calls of upsertUser by a client of the store: with the required fields
\* only, with a counter as well, with an unsupported language, and without
\* the name.
UpsertInputs ==
  {[telegramId |-> u, name |-> UserName(u), targetLanguage |-> l] :
     u \in UserIds, l \in {"fr"}}
    \cup {[telegramId |-> "u1", name |-> "Dana", targetLanguage |-> "es",
           totalLessons |-> 7],
          [telegramId |-> "u1", name |-> "Dana", targetLanguage |-> "it"],
          [telegramId |-> "u1", targetLanguage |-> "fr"]}

\* ------------------------------------------------------------- state ----

VARIABLES
  users,          \* collection 'users': userId -> profile or NoDoc
  assessments,    \* collection 'assessments': the documents, in insertion order
  nextId,         \* the next auto-generated document id
  clock,          \* ticks of the wall clock read so far
  today,          \* the current UTC calendar day
  failures,       \* transient collaborator failures injected so far
  pc,             \* per invocation: where assessVoice stands
  params,         \* per invocation: validatedParams
  attempt,        \* per invocation: attempt index of the retry loop under way
  transcript,     \* per invocation: transcriptionResult.data
  graded,         \* per invocation: the parsed grading response
  assessmentData, \* per invocation: the document handed to storeAssessment
  assessmentId,   \* per invocation: storeResult.data
  avgScore,       \* per invocation: the rounded average, in tenths
  asOf,           \* per invocation: the day of new Date() at step 5
  streak,         \* per invocation: the result of calculateStreak
  result,         \* per invocation: the outcome returned
  calls,          \* per invocation: the collaborator calls and sleeps, in order
  before,         \* per invocation: the store as it was when the call was made
  gradingResult,  \* per invocation: gradingResult.data, the raw grading text
  tool,           \* per invocation: the arguments of the assess_voice tool call
  hs,             \* per callback handler: where it stands, and its locals
  fnCall          \* a call of a pure function: its arguments and its result

storeVars == <<users, assessments, nextId>>

envVars == <<clock, today, failures>>

localVars ==
  <<params, attempt, transcript, gradingResult, graded, assessmentData, assessmentId,
    avgScore, asOf, streak>>

\* What the steps of assessVoice after its entry leave alone.
otherVars == <<tool, hs, fnCall>>

vars == <<storeVars, envVars, pc, localVars, result, calls, before, otherVars>>

None == [none |-> TRUE]

\* One entry of calls: a collaborator call (ok or failed) or a sleep of n ms;
\* for a query n is its limit.
Ev(op, ok, n) == [op |-> op, ok |-> ok, n |-> n]

\* Mutant of Failure: a failure outcome without its code.
FailureWithoutCode(code, error) == [success |-> FALSE, error |-> error]

Failure(code, error) == [success |-> FALSE, error |-> error, code |-> code]

Success(data) == [success |-> TRUE, data |-> data]

\* -------------------------------------------------------------- store ----

\* The documents of user u, the `limit` most recent ones by timestamp.
getUserAssessments(u, limit) ==
  {a \in {assessments[i] : i \in 1..Len(assessments)} :
     /\ a.userId = u
     /\ Cardinality({j \in 1..Len(assessments) :
                       /\ assessments[j].userId = u
                       /\ assessments[j].timestamp.tick > a.timestamp.tick}) < limit}

RECURSIVE SumScores(_)
\* allAssessments.reduce((sum, a) => sum + a.score, 0)
SumScores(S) ==
  IF S = {} THEN 0
  ELSE LET a == CHOOSE b \in S : TRUE IN a.score + SumScores(S \ {a})

\* Math.round(x * 10) for x = sum / n, n > 0: the average in tenths.
RoundTenths(sum, n) == (20 * sum + n) \div (2 * n)

RECURSIVE RunFrom(_, _)
\* The loop of calculateStreak over the dates sorted descending: the number
\* of dates d, d-1, d-2, ... present in the set.
RunFrom(dates, d) ==
  IF (d - 1) \in dates THEN 1 + RunFrom(dates, d - 1) ELSE 1

\* calculateStreak once the history has been read: data is the query result.
calculateStreak(data, newDay) ==
  IF data = {} THEN 1
  ELSE LET uniqueDates == {a.timestamp.day : a \in data} \cup {newDay}
           latest == CHOOSE d \in uniqueDates : \A e \in uniqueDates : e <= d
       IN  RunFrom(uniqueDates, latest)

\* Mutant of CanRetry: the loop stops one attempt early.
CanRetryStopsEarly(n) == n < MaxRetries - 1

\* retryWithBackoff: after a failure at `attempt`, is another attempt made?
CanRetry(n) == n < MaxRetries

\* retryWithBackoff: delays[attempt] || delays[delays.length - 1]
DelayFor(n) == IF n + 1 <= Len(Delays) THEN Delays[n + 1] ELSE Delays[Len(Delays)]

\* Mutant of CanRetryOnce: the call is retried a second time.
CanRetryOnceMore(n) == n < 2

\* retryOnce: only the first call is retried.
CanRetryOnce(n) == n < 1

\* The environment may still inject a transient failure.
MayFail == failures < MaxFailures

\* ------------------------------------------------------ initial state ----

\* The i-th of n earlier assessments of user u1: the first one is weak, the
\* last one was taken on day 2, the others on day 1.
PriorAssessment(i, n) ==
  [id |-> i, userId |-> "u1", lessonDay |-> 1, targetLanguage |-> "es",
   score |-> IF i = 1 THEN 40 ELSE 100, transcript |-> <<"hola">>,
   expectedAnswer |-> <<"Practice">>, feedback |-> <<"ok">>, strengths |-> <<>>,
   weakAreas |-> <<>>, timestamp |-> [day |-> IF i = n THEN 2 ELSE 1, tick |-> i]]

History(n) == [i \in 1..n |-> PriorAssessment(i, n)]

\* A callback handler that is not running.
HOff ==
  [pc |-> "off", kind |-> "", userId |-> "", data |-> None, user |-> None,
   attempt |-> 0, ack |-> "", n |-> 0]

\* The store holding the assessments hist and the profile prof of u1 (u2 has
\* no profile).
InitStore(hist, prof) ==
  /\ assessments = hist
  /\ users = [u \in UserIds |-> IF u = "u1" THEN prof ELSE NoDoc]
  /\ nextId = Len(hist) + 1
  /\ clock = Len(hist) + 1

\* The invocations in `active` are about to be made, the others never are.
InitInvocations(active) ==
  /\ pc = [p \in Procs |-> IF p \in active THEN "idle" ELSE "off"]
  /\ params = [p \in Procs |-> None]
  /\ attempt = [p \in Procs |-> 0]
  /\ transcript = [p \in Procs |-> <<>>]
  /\ graded = [p \in Procs |-> None]
  /\ assessmentData = [p \in Procs |-> None]
  /\ assessmentId = [p \in Procs |-> 0]
  /\ avgScore = [p \in Procs |-> 0]
  /\ asOf = [p \in Procs |-> 0]
  /\ streak = [p \in Procs |-> 0]
  /\ result = [p \in Procs |-> None]
  /\ calls = [p \in Procs |-> <<>>]
  /\ before = [p \in Procs |-> None]
  /\ gradingResult = [p \in Procs |-> <<>>]
  /\ tool = [p \in Procs |-> None]

\* The profile of u1 after the n assessments of History(n).
ProfileAfter(n) ==
  Profile("es", 2, 1, IF n = 0 THEN 0 ELSE IF n = 1 THEN 1 ELSE 2,
          IF n = 0 THEN 0 ELSE RoundTenths(40 + 100 * (n - 1), n))

\* The state after n assessments of u1 (u2 has no profile), with the
\* invocations in `active` about to be made.
InitWith(n, active) ==
  /\ InitStore(History(n), ProfileAfter(n))
  /\ today = 3
  /\ failures = 0
  /\ InitInvocations(active)
  /\ hs = [h \in Handlers |-> HOff]
  /\ fnCall = None

\* One invocation, after no or two earlier assessments.
Init == \E n \in {0, 2} : InitWith(n, {1})

\* One invocation, after as many earlier assessments as the default limit of
\* getUserAssessments.
InitLongHistory == InitWith(DefaultLimit, {1})

\* An assessment of user u1 stored with id i on calendar day d.
AssessmentOn(i, d) ==
  [PriorAssessment(i, 0) EXCEPT !.timestamp = [day |-> d, tick |-> i]]

\* One assessment on day 1, then all the others on day 2, n in all.
BusyDay(n) == [i \in 1..n |-> AssessmentOn(i, IF i = 1 THEN 1 ELSE 2)]

\* One invocation on day 3, when as many assessments as calculateStreak reads
\* are stored, all but the first taken on the day before.
InitBusyDay ==
  /\ InitStore(BusyDay(StreakLimit), Profile("es", 2, 1, 2, 1000))
  /\ today = 3
  /\ failures = 0
  /\ InitInvocations({1})
  /\ hs = [h \in Handlers |-> HOff]
  /\ fnCall = None

RECURSIVE Ascending(_)
\* The days of a set, in ascending order.
Ascending(S) ==
  IF S = {} THEN <<>>
  ELSE LET m == CHOOSE d \in S : \A e \in S : d <= e
       IN  <<m>> \o Ascending(S \ {m})

\* The assessments of a user active on the days of S, twice on day `twice`
\* (if it is one of them), in the order they were taken.
HistoryOn(S, twice) ==
  LET days == Ascending(S) \o (IF twice \in S THEN <<twice>> ELSE <<>>)
      sorted == Ascending(S \ {d \in S : d > twice})
                  \o (IF twice \in S THEN <<twice>> ELSE <<>>)
                  \o Ascending({d \in S : d > twice})
  IN  [i \in 1..Len(days) |-> AssessmentOn(i, sorted[i])]

\* calculateStreak(userId, date) is called on its own: for any set of earlier
\* days of activity and any date.
InitStreak ==
  \E S \in SUBSET (1..StreakDays) : \E twice \in 0..StreakDays : \E d \in 1..(StreakDays + 1) :
    /\ twice = 0 \/ twice \in S
    /\ InitStore(HistoryOn(S, twice), Profile("es", 2, 1, 0, 0))
    /\ today = d
    /\ failures = 0
    /\ pc = [p \in Procs |-> IF p = 1 THEN "streakRead" ELSE "off"]
    /\ params = [p \in Procs |-> IF p = 1 THEN GoodParams("u1", 1) ELSE None]
    /\ attempt = [p \in Procs |-> 0]
    /\ transcript = [p \in Procs |-> <<>>]
    /\ graded = [p \in Procs |-> None]
    /\ assessmentData = [p \in Procs |-> None]
    /\ assessmentId = [p \in Procs |-> 0]
    /\ avgScore = [p \in Procs |-> 0]
    /\ asOf = [p \in Procs |-> IF p = 1 THEN d ELSE 0]
    /\ streak = [p \in Procs |-> 0]
    /\ result = [p \in Procs |-> None]
    /\ calls = [p \in Procs |-> <<>>]
    /\ before = [p \in Procs |-> None]
    /\ gradingResult = [p \in Procs |-> <<>>]
    /\ tool = [p \in Procs |-> None]
    /\ hs = [h \in Handlers |-> HOff]
    /\ fnCall = None

\* ------------------------------------------------------------ actions ----

Log(p, evs) == calls' = [calls EXCEPT ![p] = @ \o evs] /\ UNCHANGED before

Return(p, r) ==
  /\ pc' = [pc EXCEPT ![p] = "done"]
  /\ result' = [result EXCEPT ![p] = r]

Goto(p, where) ==
  /\ pc' = [pc EXCEPT ![p] = where]
  /\ attempt' = [attempt EXCEPT ![p] = 0]
  /\ UNCHANGED result

\* A failed attempt of a retryWithBackoff loop that will be retried.
RetryLater(p, op, n) ==
  /\ CanRetry(attempt[p])
  /\ Log(p, <<Ev(op, FALSE, n), Ev("sleep", TRUE, DelayFor(attempt[p]))>>)
  /\ attempt' = [attempt EXCEPT ![p] = @ + 1]
  /\ UNCHANGED <<pc, result>>

\* assessVoice is called: validation, then the empty-buffer test of
\* transcribeAudio, then the first transcription call is under way.
Enter(p, q) ==
  /\ params' = [params EXCEPT ![p] = q]
  /\ IF ~assessmentParamsSchema(q)
     THEN Return(p, Failure("ERR_INVALID_INPUT", "validation")) /\ UNCHANGED attempt
     ELSE IF q.audioBuffer = 0
     THEN Return(p, Failure("ERR_INVALID_INPUT", "Audio buffer is empty"))
          /\ UNCHANGED attempt
     ELSE Goto(p, "transcribe")
  /\ before' = [before EXCEPT ![p] = [users |-> users, assessments |-> assessments]]
  /\ UNCHANGED <<storeVars, transcript, gradingResult, graded, assessmentData,
                 assessmentId, avgScore, asOf, streak>>

\* handleVoiceMessage (or any caller) calls assessVoice(params).
Start(p) ==
  /\ pc[p] = "idle"
  /\ \E q \in InputParams : Enter(p, q)
  /\ UNCHANGED <<envVars, calls, otherVars>>

\* assessVoice is called without an argument: the schema lets undefined pass,
\* reading validatedParams.audioBuffer throws, and the catch of assessVoice
\* returns ERR_GRADING_FAILED.
StartUndefined(p) ==
  /\ pc[p] = "idle"
  /\ Return(p, Failure("ERR_GRADING_FAILED", "Assessment processing failed"))
  /\ before' = [before EXCEPT ![p] = [users |-> users, assessments |-> assessments]]
  /\ UNCHANGED <<storeVars, envVars, localVars, calls, otherVars>>

\* The transcription collaborator answers.
TranscribeOk(p) ==
  /\ pc[p] = "transcribe"
  /\ \E t \in Transcripts : transcript' = [transcript EXCEPT ![p] = t]
  /\ Log(p, <<Ev("transcribe", TRUE, 0)>>)
  /\ Goto(p, "grade")
  /\ UNCHANGED <<storeVars, envVars, params, gradingResult, otherVars, graded, assessmentData, assessmentId,
                 avgScore, asOf, streak>>

\* Mutant of TranscribeFail: the transcription is tried again after every
\* failure.
TranscribeFailKeepsTrying(p) ==
  /\ pc[p] = "transcribe"
  /\ MayFail
  /\ failures' = failures + 1
  /\ Log(p, <<Ev("transcribe", FALSE, 0), Ev("sleep", TRUE, RetryOnceDelay)>>)
  /\ attempt' = [attempt EXCEPT ![p] = @ + 1]
  /\ UNCHANGED <<pc, result>>
  /\ UNCHANGED <<storeVars, clock, today, params, gradingResult, otherVars, transcript, graded, assessmentData,
                 assessmentId, avgScore, asOf, streak>>

\* The transcription collaborator fails: retryOnce, then the catch of
\* transcribeAudio.
TranscribeFail(p) ==
  /\ pc[p] = "transcribe"
  /\ MayFail
  /\ failures' = failures + 1
  /\ IF CanRetryOnce(attempt[p])
     THEN /\ Log(p, <<Ev("transcribe", FALSE, 0), Ev("sleep", TRUE, RetryOnceDelay)>>)
          /\ attempt' = [attempt EXCEPT ![p] = @ + 1]
          /\ UNCHANGED <<pc, result>>
     ELSE /\ Log(p, <<Ev("transcribe", FALSE, 0)>>)
          /\ Return(p, Failure("ERR_TRANSCRIPTION_FAILED", "Audio transcription failed"))
          /\ UNCHANGED attempt
  /\ UNCHANGED <<storeVars, clock, today, params, gradingResult, otherVars, transcript, graded, assessmentData,
                 assessmentId, avgScore, asOf, streak>>

\* The document assessVoice builds from the graded result.
NewAssessment(p, g) ==
  [userId |-> params[p].userId, lessonDay |-> params[p].lessonDay,
   targetLanguage |-> params[p].targetLanguage, score |-> g.score,
   transcript |-> transcript[p], expectedAnswer |-> params[p].expectedAnswer,
   feedback |-> g.feedback, strengths |-> g.strengths, weakAreas |-> g.weakAreas,
   timestamp |-> [day |-> today, tick |-> clock]]

\* The grading collaborator answers: parse, build the document, validate it
\* in storeAssessment; the first write is then under way.
GradeOk(p) ==
  /\ pc[p] = "grade"
  /\ \E raw \in Responses :
       LET g == parseGradingResponse(raw)
           a == NewAssessment(p, g)
       IN  /\ gradingResult' = [gradingResult EXCEPT ![p] = raw]
           /\ graded' = [graded EXCEPT ![p] = g]
           /\ assessmentData' = [assessmentData EXCEPT ![p] = a]
           /\ IF assessmentSchema(a)
              THEN Goto(p, "store")
              ELSE Return(p, Failure("ERR_INVALID_INPUT", "validation"))
                   /\ UNCHANGED attempt
  /\ Log(p, <<Ev("grade", TRUE, 0)>>)
  /\ clock' = clock + 1
  /\ UNCHANGED <<storeVars, today, failures, params, otherVars, transcript, assessmentId,
                 avgScore, asOf, streak>>

\* Mutant of GradeFail: when grading is given up an ungraded assessment is
\* stored before ERR_GRADING_FAILED is returned.
GradeFailStoresUngraded(p) ==
  /\ pc[p] = "grade"
  /\ MayFail
  /\ failures' = failures + 1
  /\ IF CanRetryOnce(attempt[p])
     THEN /\ Log(p, <<Ev("grade", FALSE, 0), Ev("sleep", TRUE, RetryOnceDelay)>>)
          /\ attempt' = [attempt EXCEPT ![p] = @ + 1]
          /\ UNCHANGED <<pc, result, storeVars>>
     ELSE /\ Log(p, <<Ev("grade", FALSE, 0)>>)
          /\ assessments' =
               Append(assessments,
                      [id |-> nextId]
                        @@ NewAssessment(p, [score |-> 0, feedback |-> <<"Grading failed">>,
                                             strengths |-> <<>>, weakAreas |-> <<>>]))
          /\ nextId' = nextId + 1
          /\ Return(p, Failure("ERR_GRADING_FAILED", "Grading failed"))
          /\ UNCHANGED <<attempt, users>>
  /\ UNCHANGED <<clock, today, params, gradingResult, otherVars, transcript, graded, assessmentData,
                 assessmentId, avgScore, asOf, streak>>

\* The grading collaborator fails: retryOnce, then the catch of gradeTranscript.
GradeFail(p) ==
  /\ pc[p] = "grade"
  /\ MayFail
  /\ failures' = failures + 1
  /\ IF CanRetryOnce(attempt[p])
     THEN /\ Log(p, <<Ev("grade", FALSE, 0), Ev("sleep", TRUE, RetryOnceDelay)>>)
          /\ attempt' = [attempt EXCEPT ![p] = @ + 1]
          /\ UNCHANGED <<pc, result>>
     ELSE /\ Log(p, <<Ev("grade", FALSE, 0)>>)
          /\ Return(p, Failure("ERR_GRADING_FAILED", "Grading failed"))
          /\ UNCHANGED attempt
  /\ UNCHANGED <<storeVars, clock, today, params, gradingResult, otherVars, transcript, graded, assessmentData,
                 assessmentId, avgScore, asOf, streak>>

\* Mutant of StoreOk: the retry loop does not return on success; it writes
\* again while attempts are left.
StoreOkNoReturn(p) ==
  /\ pc[p] = "store"
  /\ assessments' = Append(assessments, [id |-> nextId] @@ assessmentData[p])
  /\ nextId' = nextId + 1
  /\ assessmentId' = [assessmentId EXCEPT ![p] = nextId]
  /\ Log(p, <<Ev("add", TRUE, 0)>>)
  /\ IF CanRetry(attempt[p])
     THEN attempt' = [attempt EXCEPT ![p] = @ + 1] /\ UNCHANGED <<pc, result>>
     ELSE Goto(p, "readAll")
  /\ UNCHANGED <<users, envVars, params, gradingResult, otherVars, transcript, graded, assessmentData, avgScore,
                 asOf, streak>>

\* Mutant of StoreOk: the error of an earlier attempt is thrown although a
\* later attempt succeeded.
StoreOkRethrows(p) ==
  /\ pc[p] = "store"
  /\ assessments' = Append(assessments, [id |-> nextId] @@ assessmentData[p])
  /\ nextId' = nextId + 1
  /\ assessmentId' = [assessmentId EXCEPT ![p] = nextId]
  /\ Log(p, <<Ev("add", TRUE, 0)>>)
  /\ IF attempt[p] > 0
     THEN Return(p, Failure("ERR_DATABASE_ERROR", "Failed to save assessment"))
          /\ UNCHANGED attempt
     ELSE Goto(p, "readAll")
  /\ UNCHANGED <<users, envVars, params, gradingResult, otherVars, transcript, graded, assessmentData, avgScore,
                 asOf, streak>>

\* storeAssessment: collection('assessments').add(validatedData) succeeds.
StoreOk(p) ==
  /\ pc[p] = "store"
  /\ assessments' = Append(assessments, [id |-> nextId] @@ assessmentData[p])
  /\ nextId' = nextId + 1
  /\ assessmentId' = [assessmentId EXCEPT ![p] = nextId]
  /\ Log(p, <<Ev("add", TRUE, 0)>>)
  /\ Goto(p, "readAll")
  /\ UNCHANGED <<users, envVars, params, gradingResult, otherVars, transcript, graded, assessmentData, avgScore,
                 asOf, streak>>

\* storeAssessment: the add fails; retried, then ERR_DATABASE_ERROR.
StoreFail(p) ==
  /\ pc[p] = "store"
  /\ MayFail
  /\ failures' = failures + 1
  /\ \/ RetryLater(p, "add", 0)
     \/ /\ ~CanRetry(attempt[p])
        /\ Log(p, <<Ev("add", FALSE, 0)>>)
        /\ Return(p, Failure("ERR_DATABASE_ERROR", "Failed to save assessment"))
        /\ UNCHANGED attempt
  /\ UNCHANGED <<storeVars, clock, today, params, gradingResult, otherVars, transcript, graded, assessmentData,
                 assessmentId, avgScore, asOf, streak>>

\* The data assessVoice returns on success.
Outcome(p) ==
  Success([assessmentId |-> assessmentId[p], score |-> graded[p].score,
           transcript |-> transcript[p], feedback |-> graded[p].feedback,
           strengths |-> graded[p].strengths, weakAreas |-> graded[p].weakAreas])

\* The average assessVoice computes from what getUserAssessments returned
\* (0 / 0 is NaN, written -1).
AverageOf(data) ==
  IF data = {} THEN -1 ELSE RoundTenths(SumScores(data), Cardinality(data))

\* Step 5: getUserAssessments(userId) answers; the average is computed and
\* calculateStreak(userId, new Date()) starts its own read.
ReadAllOk(p) ==
  /\ pc[p] = "readAll"
  /\ avgScore' = [avgScore EXCEPT ![p] = AverageOf(getUserAssessments(params[p].userId, DefaultLimit))]
  /\ asOf' = [asOf EXCEPT ![p] = today]
  /\ Log(p, <<Ev("query", TRUE, DefaultLimit)>>)
  /\ Goto(p, "streakRead")
  /\ UNCHANGED <<storeVars, envVars, params, gradingResult, otherVars, transcript, graded, assessmentData,
                 assessmentId, streak>>

\* Step 5: the read fails; retried, then the statistics are skipped and
\* assessVoice returns success.
ReadAllFail(p) ==
  /\ pc[p] = "readAll"
  /\ MayFail
  /\ failures' = failures + 1
  /\ \/ RetryLater(p, "query", DefaultLimit)
     \/ /\ ~CanRetry(attempt[p])
        /\ Log(p, <<Ev("query", FALSE, DefaultLimit)>>)
        /\ Return(p, Outcome(p))
        /\ UNCHANGED attempt
  /\ UNCHANGED <<storeVars, clock, today, params, gradingResult, otherVars, transcript, graded, assessmentData,
                 assessmentId, avgScore, asOf, streak>>

\* calculateStreak: getUserAssessments(userId, 100) answers.
StreakReadOk(p) ==
  /\ pc[p] = "streakRead"
  /\ streak' = [streak EXCEPT ![p] = calculateStreak(getUserAssessments(params[p].userId, StreakLimit), asOf[p])]
  /\ Log(p, <<Ev("query", TRUE, StreakLimit)>>)
  /\ Goto(p, "update")
  /\ UNCHANGED <<storeVars, envVars, params, gradingResult, otherVars, transcript, graded, assessmentData,
                 assessmentId, avgScore, asOf>>

\* calculateStreak: the read fails; retried, then the streak is 1.
StreakReadFail(p) ==
  /\ pc[p] = "streakRead"
  /\ MayFail
  /\ failures' = failures + 1
  /\ \/ RetryLater(p, "query", StreakLimit) /\ UNCHANGED streak
     \/ /\ ~CanRetry(attempt[p])
        /\ Log(p, <<Ev("query", FALSE, StreakLimit)>>)
        /\ streak' = [streak EXCEPT ![p] = 1]
        /\ Goto(p, "update")
  /\ UNCHANGED <<storeVars, clock, today, params, gradingResult, otherVars, transcript, graded, assessmentData,
                 assessmentId, avgScore, asOf>>

\* updateUserStats: doc(userId).update({avgScore, streak}) succeeds; assessVoice
\* returns success.
UpdateOk(p) ==
  /\ pc[p] = "update"
  /\ users[params[p].userId] # NoDoc
  /\ users' = [users EXCEPT ![params[p].userId] =
                 [@ EXCEPT !.avgScore = avgScore[p], !.streak = streak[p]]]
  /\ Log(p, <<Ev("update", TRUE, 0)>>)
  /\ Return(p, Outcome(p))
  /\ UNCHANGED <<assessments, nextId, envVars, localVars, otherVars>>

\* Mutant of UpdateFail: when the update is given up the assessment just
\* appended is deleted again.
UpdateFailRollsBack(p) ==
  /\ pc[p] = "update"
  /\ \/ users[params[p].userId] = NoDoc /\ UNCHANGED failures
     \/ users[params[p].userId] # NoDoc /\ MayFail /\ failures' = failures + 1
  /\ \/ RetryLater(p, "update", 0) /\ UNCHANGED assessments
     \/ /\ ~CanRetry(attempt[p])
        /\ Log(p, <<Ev("update", FALSE, 0)>>)
        /\ assessments' = SelectSeq(assessments, LAMBDA a : a.id # assessmentId[p])
        /\ Return(p, Outcome(p))
        /\ UNCHANGED attempt
  /\ UNCHANGED <<users, nextId, clock, today, params, gradingResult, otherVars, transcript, graded, assessmentData,
                 assessmentId, avgScore, asOf, streak>>

\* updateUserStats: the update fails (transiently, or because the document
\* does not exist); retried, then ignored: assessVoice returns success.
UpdateFail(p) ==
  /\ pc[p] = "update"
  /\ \/ users[params[p].userId] = NoDoc /\ UNCHANGED failures
     \/ users[params[p].userId] # NoDoc /\ MayFail /\ failures' = failures + 1
  /\ \/ RetryLater(p, "update", 0)
     \/ /\ ~CanRetry(attempt[p])
        /\ Log(p, <<Ev("update", FALSE, 0)>>)
        /\ Return(p, Outcome(p))
        /\ UNCHANGED attempt
  /\ UNCHANGED <<storeVars, clock, today, params, gradingResult, otherVars, transcript, graded, assessmentData,
                 assessmentId, avgScore, asOf, streak>>

\* --------------------------------------------------- callback handlers

\* What a callback handler or a client of the store leaves alone.
handlerFrame ==
  <<assessments, nextId, clock, today, pc, localVars, result, calls, before, tool, fnCall>>

\* Handler h goes on, with some of its locals changed.
HSet(h, r) == hs' = [hs EXCEPT ![h] = r]

\* A failed attempt of a retryWithBackoff loop of handler h: retried while
\* attempts are left, else the operation fails and the handler goes on at r.
HFail(h, r) ==
  /\ MayFail
  /\ failures' = failures + 1
  /\ IF CanRetry(hs[h].attempt)
     THEN HSet(h, [hs[h] EXCEPT !.attempt = @ + 1])
     ELSE HSet(h, r)
  /\ UNCHANGED <<users, handlerFrame>>

\* bot.action(/^lang_(.+)$/): a language button is pressed; getUser starts.
LangCallback(h) ==
  /\ hs[h].pc = "idle" /\ hs[h].n < MaxCallbacks
  /\ \E u \in UserIds : \E lang \in Languages :
       HSet(h, [hs[h] EXCEPT !.pc = "getUser", !.kind = "lang", !.userId = u,
                             !.data = [targetLanguage |-> lang], !.ack = "",
                             !.attempt = 0, !.n = @ + 1])
  /\ UNCHANGED <<users, failures, handlerFrame>>

\* bot.action(/^lesson_complete_(\d+)$/): handleLessonComplete; getUser starts.
LessonCompleteCallback(h) ==
  /\ hs[h].pc = "idle" /\ hs[h].n < MaxCallbacks
  /\ \E u \in UserIds : \E day \in 1..MaxLesson :
       HSet(h, [hs[h] EXCEPT !.pc = "getUser", !.kind = "complete", !.userId = u,
                             !.data = [lessonDay |-> day], !.ack = "",
                             !.attempt = 0, !.n = @ + 1])
  /\ UNCHANGED <<users, failures, handlerFrame>>

\* A client of the store calls upsertUser(userData): validation, then the
\* write starts.
UpsertUserCall(h) ==
  /\ hs[h].pc = "idle" /\ hs[h].n < MaxCallbacks
  /\ \E d \in UpsertInputs :
       LET r == [hs[h] EXCEPT !.kind = "upsertUser", !.userId = d.telegramId,
                              !.user = users[d.telegramId], !.ack = "",
                              !.attempt = 0, !.n = @ + 1]
       IN  IF userSchema(d)
           THEN HSet(h, [r EXCEPT !.pc = "upsert", !.data = d])
           ELSE HSet(h, [r EXCEPT !.pc = "idle", !.data = d, !.ack = "ERR_INVALID_INPUT"])
  /\ UNCHANGED <<users, failures, handlerFrame>>

\* What follows getUser in the handler: the next store operation, or the
\* answer.  found: the result was a success; doc: its data.
AfterGetUser(h, found, doc) ==
  IF hs[h].kind = "lang"
  THEN IF found
       THEN [hs[h] EXCEPT !.pc = "update", !.user = doc, !.attempt = 0,
                          !.data = [targetLanguage |-> hs[h].data.targetLanguage,
                                    lessonDay |-> 1]]
       ELSE [hs[h] EXCEPT !.pc = "upsert", !.user = doc, !.attempt = 0,
                          !.data = NewUserData(hs[h].userId, hs[h].data.targetLanguage)]
  ELSE IF found
       THEN [hs[h] EXCEPT !.pc = "update", !.user = doc, !.attempt = 0,
                          !.data = [totalLessons |-> doc.totalLessons + 1,
                                    lessonDay |-> hs[h].data.lessonDay + 1]]
       ELSE [hs[h] EXCEPT !.pc = "idle", !.ack = "User data not found", !.data = None,
                          !.attempt = 0]

\* getUser: doc(telegramId).get() answers.
GetUserOk(h) ==
  /\ hs[h].pc = "getUser"
  /\ LET doc == users[hs[h].userId]
     IN  HSet(h, AfterGetUser(h, doc # NoDoc, doc))
  /\ UNCHANGED <<users, failures, handlerFrame>>

\* getUser: the get fails; retried, then ERR_DATABASE_ERROR, which the
\* handlers take like a user that does not exist.
GetUserFail(h) ==
  /\ hs[h].pc = "getUser"
  /\ HFail(h, AfterGetUser(h, FALSE, NoDoc))

\* The answer of the handler after updateUserStats.
UpdateAck(h, ok) ==
  IF hs[h].kind = "lang"
  THEN IF ok THEN "Language updated!" ELSE "Failed to update language"
  ELSE IF ok THEN "Lesson completed!" ELSE "Failed to save progress"

\* Mutant of UpdateStatsOk: a language change, which resets the progress to
\* day 1, also deletes the assessments of the user.
UpdateStatsOkClearsLog(h) ==
  /\ hs[h].pc = "update"
  /\ users[hs[h].userId] # NoDoc
  /\ users' = [users EXCEPT ![hs[h].userId] = Update(@, hs[h].data)]
  /\ assessments' =
       IF hs[h].kind = "lang"
       THEN SelectSeq(assessments, LAMBDA a : a.userId # hs[h].userId)
       ELSE assessments
  /\ HSet(h, [hs[h] EXCEPT !.pc = "idle", !.ack = UpdateAck(h, TRUE), !.attempt = 0])
  /\ UNCHANGED <<failures, nextId, clock, today, pc, localVars, result, calls, before,
                 tool, fnCall>>

\* Mutant of UpdateStatsOk: the update is written like an upsert under the
\* stored name, with the defaults of the fields it leaves out.
UpdateStatsOkWritesDefaults(h) ==
  /\ hs[h].pc = "update"
  /\ users[hs[h].userId] # NoDoc
  /\ LET d == hs[h].data
         named == [f \in DOMAIN d \cup {"name"} |->
                     IF f \in DOMAIN d THEN d[f] ELSE users[hs[h].userId].name]
     IN  users' = [users EXCEPT ![hs[h].userId] = SetMerge(@, Validated(named))]
  /\ HSet(h, [hs[h] EXCEPT !.pc = "idle", !.ack = UpdateAck(h, TRUE), !.attempt = 0])
  /\ UNCHANGED <<failures, handlerFrame>>

\* updateUserStats: doc(userId).update(updates) succeeds.
UpdateStatsOk(h) ==
  /\ hs[h].pc = "update"
  /\ users[hs[h].userId] # NoDoc
  /\ users' = [users EXCEPT ![hs[h].userId] = Update(@, hs[h].data)]
  /\ HSet(h, [hs[h] EXCEPT !.pc = "idle", !.ack = UpdateAck(h, TRUE), !.attempt = 0])
  /\ UNCHANGED <<failures, handlerFrame>>

\* updateUserStats: the update fails; retried, then ERR_DATABASE_ERROR.
UpdateStatsFail(h) ==
  /\ hs[h].pc = "update"
  /\ HFail(h, [hs[h] EXCEPT !.pc = "idle", !.ack = UpdateAck(h, FALSE), !.attempt = 0])

\* The answer after upsertUser: of the handler, or to the client.
UpsertAck(h, ok) ==
  IF hs[h].kind = "lang"
  THEN IF ok THEN "Language selected!" ELSE "Failed to save your selection"
  ELSE IF ok THEN "ok" ELSE "ERR_DATABASE_ERROR"

\* upsertUser: doc(telegramId).set(validatedData, {merge: true}) succeeds.
UpsertOk(h) ==
  /\ hs[h].pc = "upsert"
  /\ users' = [users EXCEPT ![hs[h].userId] = SetMerge(@, Validated(hs[h].data))]
  /\ HSet(h, [hs[h] EXCEPT !.pc = "idle", !.ack = UpsertAck(h, TRUE), !.attempt = 0])
  /\ UNCHANGED <<failures, handlerFrame>>

\* upsertUser: the set fails; retried, then ERR_DATABASE_ERROR.
UpsertFail(h) ==
  /\ hs[h].pc = "upsert"
  /\ HFail(h, [hs[h] EXCEPT !.pc = "idle", !.ack = UpsertAck(h, FALSE), !.attempt = 0])

\* Midnight (UTC) passes.
NextDay ==
  /\ today < MaxDay
  /\ today' = today + 1
  /\ UNCHANGED <<storeVars, clock, failures, pc, localVars, result, calls, before,
                 otherVars>>

Next ==
  \/ \E p \in Procs :
       \/ Start(p)
       \/ StartUndefined(p)
       \/ TranscribeOk(p)
       \/ TranscribeFail(p)
       \/ GradeOk(p)
       \/ GradeFail(p)
       \/ StoreOk(p)
       \/ StoreFail(p)
       \/ ReadAllOk(p)
       \/ ReadAllFail(p)
       \/ StreakReadOk(p)
       \/ StreakReadFail(p)
       \/ UpdateOk(p)
       \/ UpdateFail(p)
  \/ NextDay

Spec == Init /\ [][Next]_vars

\* A step of invocation p after its entry: a collaborator answers, with a
\* result or with a failure.
Continue(p) ==
  \/ TranscribeOk(p) \/ TranscribeFail(p)
  \/ GradeOk(p) \/ GradeFail(p)
  \/ StoreOk(p) \/ StoreFail(p)
  \/ ReadAllOk(p) \/ ReadAllFail(p)
  \/ StreakReadOk(p) \/ StreakReadFail(p)
  \/ UpdateOk(p) \/ UpdateFail(p)

\* Every collaborator call is awaited and answers (the calls block with a
\* timeout), and so does every sleep between attempts.
SpecLive == Spec /\ \A p \in Procs : WF_vars(Continue(p))

SpecLongHistory == InitLongHistory /\ [][Next]_vars

SpecBusyDay == InitBusyDay /\ [][Next]_vars

\* calculateStreak called on its own: its read, retried, then its loop; at
\* "update" it has returned.
NextStreak == \E p \in Procs : StreakReadOk(p) \/ StreakReadFail(p)

SpecStreak == InitStreak /\ [][NextStreak]_vars

\* One handler process serves callbacks and store clients, one after the
\* other; no assessment is under way.
InitHandlers ==
  /\ InitStore(History(2), ProfileAfter(2))
  /\ today = 3
  /\ failures = 0
  /\ InitInvocations({})
  /\ hs = [h \in Handlers |-> IF h = "h1" THEN [HOff EXCEPT !.pc = "idle"] ELSE HOff]
  /\ fnCall = None

\* One invocation of assessVoice with well-formed parameters while a handler
\* process serves one callback or store client; the environment injects at
\* most one transient failure.
InitBot ==
  /\ InitStore(History(2), ProfileAfter(2))
  /\ today = 3
  /\ failures = MaxFailures - 1
  /\ InitInvocations({1})
  /\ hs = [h \in Handlers |->
             IF h = "h1" THEN [HOff EXCEPT !.pc = "idle", !.n = MaxCallbacks - 1]
             ELSE HOff]
  /\ fnCall = None

\* assessVoice is called with well-formed parameters.
StartValid(p) == Start(p) /\ \E u \in UserIds : params'[p] = GoodParams(u, 1)

NextHandlers ==
  \E h \in Handlers :
    \/ LangCallback(h)
    \/ LessonCompleteCallback(h)
    \/ UpsertUserCall(h)
    \/ GetUserOk(h)
    \/ GetUserFail(h)
    \/ UpdateStatsOk(h)
    \/ UpdateStatsFail(h)
    \/ UpsertOk(h)
    \/ UpsertFail(h)

SpecHandlers == InitHandlers /\ [][NextHandlers]_vars

NextBot ==
  \/ \E p \in Procs :
       \/ StartValid(p)
       \/ TranscribeOk(p)
       \/ TranscribeFail(p)
       \/ GradeOk(p)
       \/ GradeFail(p)
       \/ StoreOk(p)
       \/ StoreFail(p)
       \/ ReadAllOk(p)
       \/ ReadAllFail(p)
       \/ StreakReadOk(p)
       \/ StreakReadFail(p)
       \/ UpdateOk(p)
       \/ UpdateFail(p)
  \/ \E h \in Handlers :
       \/ LangCallback(h)
       \/ LessonCompleteCallback(h)
       \/ UpsertUserCall(h)
       \/ GetUserOk(h)
       \/ GetUserFail(h)
       \/ UpdateStatsOk(h)
       \/ UpdateStatsFail(h)
       \/ UpsertOk(h)
       \/ UpsertFail(h)

SpecBot == InitBot /\ [][NextBot]_vars

\* Two completion buttons are pressed, each served by its own execution of
\* handleLessonComplete; the environment injects at most one transient
\* failure.
InitCompletions ==
  /\ InitStore(History(2), ProfileAfter(2))
  /\ today = 3
  /\ failures = MaxFailures - 1
  /\ InitInvocations({})
  /\ hs = [h \in Handlers |-> [HOff EXCEPT !.pc = "idle", !.n = MaxCallbacks - 1]]
  /\ fnCall = None

NextCompletions ==
  \E h \in Handlers :
    \/ LessonCompleteCallback(h)
    \/ GetUserOk(h)
    \/ GetUserFail(h)
    \/ UpdateStatsOk(h)
    \/ UpdateStatsFail(h)

SpecCompletions == InitCompletions /\ [][NextCompletions]_vars

\* Two invocations of assessVoice with well-formed parameters, for the same
\* user or for two users, run concurrently; the environment injects at most
\* one transient failure.
InitPair ==
  /\ InitStore(History(2), ProfileAfter(2))
  /\ today = 3
  /\ failures = MaxFailures - 1
  /\ InitInvocations(Procs)
  /\ hs = [h \in Handlers |-> HOff]
  /\ fnCall = None

NextPair == \E p \in Procs : StartValid(p) \/ Continue(p)

SpecPair == InitPair /\ [][NextPair]_vars

\* One invocation, run on its own after concurrent invocations for u1 have
\* left stale statistics: the profile holds the average and the streak of
\* the log without its last document (the invocation that wrote last had
\* read the log before the other one added to it).
InitStale ==
  /\ \E n \in {2, DefaultLimit} : InitStore(History(n), ProfileAfter(n - 1))
  /\ today = 3
  /\ failures = 0
  /\ InitInvocations({1})
  /\ hs = [h \in Handlers |-> HOff]
  /\ fnCall = None

SpecStale == InitStale /\ [][Next]_vars

\* ---- The assess_voice tool (mcp/assessmentMcp.js) ----

\* The parameters the tool definition declares as required.
Required == {"userId", "lessonDay", "targetLanguage", "audioUrl"}

\* Arguments with exactly the required parameters.
RequiredArgs(u) ==
  [userId |-> u, lessonDay |-> 1, targetLanguage |-> "es", audioUrl |-> "https://audio"]

\* Arguments with the optional parameters too.
FullArgs(u) ==
  RequiredArgs(u)
    @@ [lessonWords |-> 5, expectedAnswer |-> <<"Practice">>, nativeLanguage |-> "he"]

\* The arguments r without the parameter k.
Without(r, k) == [f \in DOMAIN r \ {k} |-> r[f]]

\* The arguments of the tool calls made: the required parameters alone, all
\* of them, and calls with one parameter missing, empty or unsupported.
ToolArguments ==
  {RequiredArgs(u) : u \in UserIds} \cup {FullArgs(u) : u \in UserIds}
    \cup {Without(FullArgs("u1"), "targetLanguage"),
          Without(FullArgs("u1"), "expectedAnswer"),
          [FullArgs("u1") EXCEPT !.userId = ""],
          [FullArgs("u1") EXCEPT !.lessonDay = 0],
          [FullArgs("u1") EXCEPT !.audioUrl = ""],
          [FullArgs("u1") EXCEPT !.targetLanguage = "it"],
          [FullArgs("u1") EXCEPT !.lessonWords = 0]}

\* !params.userId || !params.lessonDay || !params.targetLanguage || !params.audioUrl
MissingRequired(a) ==
  \/ "userId" \notin DOMAIN a \/ a.userId = ""
  \/ "lessonDay" \notin DOMAIN a \/ a.lessonDay = 0
  \/ "targetLanguage" \notin DOMAIN a \/ a.targetLanguage = ""
  \/ "audioUrl" \notin DOMAIN a \/ a.audioUrl = ""

\* assessmentParams, built from the arguments and the n bytes downloaded.
assessmentParams(a, n) ==
  [userId |-> a.userId, lessonDay |-> a.lessonDay, targetLanguage |-> a.targetLanguage,
   nativeLanguage |->
     IF "nativeLanguage" \in DOMAIN a /\ a.nativeLanguage # "" THEN a.nativeLanguage
     ELSE "he",
   audioBuffer |-> n,
   lessonWords |-> IF "lessonWords" \in DOMAIN a THEN a.lessonWords ELSE 0,
   expectedAnswer |->
     IF "expectedAnswer" \in DOMAIN a /\ a.expectedAnswer # <<>> THEN a.expectedAnswer
     ELSE <<"Practice", SP, "speaking">>]

\* The reply built from the outcome of assessVoice.
McpResponse(r) ==
  IF ~r.success THEN r
  ELSE [success |-> TRUE, score |-> r.data.score, feedback |-> r.data.feedback,
        transcript |-> r.data.transcript, strengths |-> r.data.strengths,
        weakAreas |-> r.data.weakAreas, assessmentId |-> r.data.assessmentId]

Reply(p, r) ==
  /\ tool' = [tool EXCEPT ![p].reply = r]
  /\ pc' = [pc EXCEPT ![p] = "replied"]

\* handleAssessVoice is called: the test of the required parameters, then
\* the download is under way.
McpCall(p) ==
  /\ pc[p] = "idle"
  /\ \E a \in ToolArguments :
       IF MissingRequired(a)
       THEN /\ tool' = [tool EXCEPT ![p] =
                          [arguments |-> a,
                           reply |-> Failure("ERR_INVALID_INPUT", "Missing required parameters")]]
            /\ pc' = [pc EXCEPT ![p] = "replied"]
       ELSE /\ tool' = [tool EXCEPT ![p] = [arguments |-> a, reply |-> None]]
            /\ pc' = [pc EXCEPT ![p] = "download"]
  /\ UNCHANGED <<storeVars, envVars, localVars, result, calls, before, hs, fnCall>>

\* handleAssessVoice is called without arguments: reading params.userId
\* throws, and the catch replies ERR_GRADING_FAILED.
McpCallUndefined(p) ==
  /\ pc[p] = "idle"
  /\ tool' = [tool EXCEPT ![p] =
                [arguments |-> None,
                 reply |-> Failure("ERR_GRADING_FAILED", "Assessment processing failed")]]
  /\ pc' = [pc EXCEPT ![p] = "replied"]
  /\ UNCHANGED <<storeVars, envVars, localVars, result, calls, before, hs, fnCall>>

\* The download succeeds, with an empty or a non-empty body: assessVoice is
\* called with the parameters built from the arguments.
DownloadOk(p) ==
  /\ pc[p] = "download"
  /\ \E n \in {0, 1} : Enter(p, assessmentParams(tool[p].arguments, n))
  /\ calls' = [calls EXCEPT ![p] = @ \o <<Ev("download", TRUE, 0)>>]
  /\ UNCHANGED <<envVars, otherVars>>

\* The download fails: ERR_AUDIO_DOWNLOAD.
DownloadFail(p) ==
  /\ pc[p] = "download"
  /\ MayFail
  /\ failures' = failures + 1
  /\ Reply(p, Failure("ERR_AUDIO_DOWNLOAD", "Failed to download audio file"))
  /\ calls' = [calls EXCEPT ![p] = @ \o <<Ev("download", FALSE, 0)>>]
  /\ UNCHANGED <<storeVars, clock, today, localVars, result, before, hs, fnCall>>

\* assessVoice has returned: a failure is passed on, a success is flattened.
McpReturn(p) ==
  /\ pc[p] = "done"
  /\ tool[p] # None
  /\ Reply(p, McpResponse(result[p]))
  /\ UNCHANGED <<storeVars, envVars, localVars, result, calls, before, hs, fnCall>>

NextMcp ==
  \E p \in Procs :
    \/ McpCall(p)
    \/ McpCallUndefined(p)
    \/ DownloadOk(p)
    \/ DownloadFail(p)
    \/ McpReturn(p)
    \/ TranscribeOk(p)
    \/ TranscribeFail(p)
    \/ GradeOk(p)
    \/ GradeFail(p)
    \/ StoreOk(p)
    \/ StoreFail(p)
    \/ ReadAllOk(p)
    \/ ReadAllFail(p)
    \/ StreakReadOk(p)
    \/ StreakReadFail(p)
    \/ UpdateOk(p)
    \/ UpdateFail(p)

\* One tool call, after no or two earlier assessments.
SpecMcp == Init /\ [][NextMcp]_vars

\* No assessment and no handler is under way.
InitQuiet ==
  /\ InitStore(History(0), ProfileAfter(0))
  /\ today = 3
  /\ failures = 0
  /\ InitInvocations({})
  /\ hs = [h \in Handlers |-> HOff]

\* A pure function is about to be applied to the argument arg.
Pending(fn, arg) == [fn |-> fn, arg |-> arg, out |-> None]

\* parseGradingResponse is about to be applied to any of the texts.
InitParse == InitQuiet /\ \E t \in ParseInputs : fnCall = Pending("parse", t)

\* parseGradingResponse(llmResponse) returns.
ParseCall ==
  /\ fnCall # None /\ fnCall.fn = "parse" /\ fnCall.out = None
  /\ fnCall' = [fnCall EXCEPT !.out = parseGradingResponse(fnCall.arg)]
  /\ UNCHANGED <<storeVars, envVars, pc, localVars, result, calls, before, tool, hs>>

SpecParse == InitParse /\ [][ParseCall]_vars

\* ---- The lesson catalog (config/languages.js) and getLesson ----

\* A language code or a day the catalog has nothing under (undefined).
Absent == [exists |-> FALSE]

\* A lesson of the catalog: every one has a words array of 5 items.
Lesson == [exists |-> TRUE, hasWords |-> TRUE, words |-> 5]

\* A language of the catalog: its lessons by day.
Language(days) == [exists |-> TRUE, lessons |-> [d \in days |-> Lesson]]

\* const languages: English and Spanish have lessons 1 and 2, French and
\* German lesson 1.
languages ==
  [en |-> Language(1..2), es |-> Language(1..2), fr |-> Language(1..1),
   de |-> Language(1..1)]

\* Properties every object inherits: languages[name] is not undefined, and
\* it has no lessons.
Inherited == {"toString", "constructor", "__proto__"}

\* The language codes getLesson is called with: those of the catalog, an
\* unknown code, the empty string, and inherited property names.
LanguageCodes == DOMAIN languages \cup {"xx", ""} \cup Inherited

\* The days getLesson is called with: below, in and beyond the catalog.
LessonDays == 0..(MaxDay + 2)

\* languages[languageCode]: a plain property read, which follows the
\* prototype chain: an inherited name gives a value that is not undefined (a
\* function, or Object.prototype) and has no lessons property.
Lookup(languageCode) ==
  IF languageCode \in DOMAIN languages THEN languages[languageCode]
  ELSE IF languageCode \in Inherited THEN [exists |-> TRUE]
  ELSE Absent

\* language.lessons[lessonDay]
LessonOf(language, lessonDay) ==
  IF lessonDay \in DOMAIN language.lessons THEN language.lessons[lessonDay] ELSE Absent

\* getLesson(languageCode, lessonDay).  When the value read has no lessons
\* property, language.lessons[lessonDay] throws and the catch answers.
getLesson(languageCode, lessonDay) ==
  IF ~Lookup(languageCode).exists
  THEN Failure("ERR_INVALID_INPUT", "Language is not supported")
  ELSE IF "lessons" \notin DOMAIN Lookup(languageCode)
  THEN Failure("ERR_LESSON_NOT_FOUND", "Failed to retrieve lesson")
  ELSE LET lesson == LessonOf(Lookup(languageCode), lessonDay)
       IN  IF ~lesson.exists
           THEN Failure("ERR_LESSON_NOT_FOUND", "Lesson not available")
           ELSE IF ~lesson.hasWords \/ lesson.words # 5
           THEN Failure("ERR_LESSON_NOT_FOUND", "Lesson content is malformed")
           ELSE [success |-> TRUE, data |-> [words |-> lesson.words]]

\* getLesson is about to be called with any code and day.
InitLesson ==
  /\ InitQuiet
  /\ \E l \in LanguageCodes : \E d \in LessonDays :
       fnCall = Pending("getLesson", [languageCode |-> l, lessonDay |-> d])

\* getLesson(languageCode, lessonDay) returns.
LessonCall ==
  /\ fnCall # None /\ fnCall.fn = "getLesson" /\ fnCall.out = None
  /\ fnCall' = [fnCall EXCEPT !.out = getLesson(fnCall.arg.languageCode, fnCall.arg.lessonDay)]
  /\ UNCHANGED <<storeVars, envVars, pc, localVars, result, calls, before, tool, hs>>

SpecLesson == InitLesson /\ [][LessonCall]_vars

\* ------------------------------------------------- reading the trace ----

Done(p) == pc[p] = "done"

\* The positions in calls[p] of the calls of collaborator operation op (with
\* limit n for a query, 0 otherwise).
CallsOf(p, op, n) == {i \in 1..Len(calls[p]) : calls[p][i].op = op /\ calls[p][i].n = n}

\* The operation was called and its last call failed.
LastFailed(p, op, n) ==
  /\ CallsOf(p, op, n) # {}
  /\ \A i \in CallsOf(p, op, n) : (\A j \in CallsOf(p, op, n) : j <= i) => ~calls[p][i].ok

Succeeded(p, op, n) == \E i \in CallsOf(p, op, n) : calls[p][i].ok

\* Where assessVoice stands while operation op is under way.
PcOf(op, n) ==
  CASE op = "transcribe" -> "transcribe"
    [] op = "grade" -> "grade"
    [] op = "add" -> "store"
    [] op = "query" /\ n = DefaultLimit -> "readAll"
    [] op = "query" /\ n = StreakLimit -> "streakRead"
    [] op = "update" -> "update"

\* The operation is over and ended in failure, retries included.
OpFailed(p, op, n) == LastFailed(p, op, n) /\ pc[p] # PcOf(op, n)

\* The stage a collaborator operation belongs to: 1 transcribe, 2 grade,
\* 4 persist the record, 5 recompute the aggregates (3, parse, calls nothing).
StageOf(op) ==
  CASE op = "transcribe" -> 1
    [] op = "grade" -> 2
    [] op = "add" -> 4
    [] op \in {"query", "update"} -> 5

IsCall(e) == e.op # "sleep"

\* The error code with which each collaborator operation fails.
CodeOf(op) ==
  CASE op = "transcribe" -> "ERR_TRANSCRIPTION_FAILED"
    [] op = "grade" -> "ERR_GRADING_FAILED"
    [] op \in {"add", "query", "update"} -> "ERR_DATABASE_ERROR"

StoreOps == {<<"add", 0>>, <<"query", DefaultLimit>>, <<"query", StreakLimit>>, <<"update", 0>>}

AllOps == {<<"transcribe", 0>>, <<"grade", 0>>} \cup StoreOps

\* The document the invocation appended is in the collection, as written.
RecordKept(p) ==
  \E i \in 1..Len(assessments) :
    assessments[i] = [id |-> assessmentId[p]] @@ assessmentData[p]

\* ------------------------------------------------------------- claims ----

\* C1: the stages of assessVoice run in the order transcribe, grade, parse,
\* persist, recompute: a grading call is made only after a transcription call
\* has succeeded, an add only after a grading call has succeeded, a read or
\* update of the aggregates only after the add has succeeded; and once an
\* operation of a stage has failed, no operation of a later stage is called and
\* the invocation returns the error of that first failing stage.
C1_StagesInOrder ==
  \A p \in Procs :
    LET c == calls[p] IN
    /\ \A i \in 1..Len(c) : \A j \in 1..Len(c) :
         (i < j /\ IsCall(c[i]) /\ IsCall(c[j])) => StageOf(c[i].op) <= StageOf(c[j].op)
    /\ \A i \in 1..Len(c) :
         /\ c[i].op = "grade" => \E j \in 1..(i - 1) : c[j].op = "transcribe" /\ c[j].ok
         /\ c[i].op = "add" => \E j \in 1..(i - 1) : c[j].op = "grade" /\ c[j].ok
         /\ c[i].op \in {"query", "update"} => \E j \in 1..(i - 1) : c[j].op = "add" /\ c[j].ok
    /\ \A o \in {<<"transcribe", 0>>, <<"grade", 0>>, <<"add", 0>>,
                 <<"query", DefaultLimit>>, <<"update", 0>>} :
         (Done(p) /\ OpFailed(p, o[1], o[2])) =>
           /\ ~result[p].success
           /\ result[p].code = CodeOf(o[1])
           /\ \A i \in 1..Len(c) : IsCall(c[i]) => StageOf(c[i].op) <= StageOf(o[1])

\* C2: an invocation that returns TranscriptionFailed or GradingFailed has
\* appended no assessment and has written nothing to the user's profile.
C2_FailedCallLeavesStore ==
  \A p \in Procs :
    (Done(p) /\ ~result[p].success
       /\ result[p].code \in {"ERR_TRANSCRIPTION_FAILED", "ERR_GRADING_FAILED"}) =>
      /\ assessments = before[p].assessments
      /\ users = before[p].users
      /\ CallsOf(p, "add", 0) = {} /\ CallsOf(p, "update", 0) = {}

\* C2 witness: both transcription calls failed and the invocation returned.
C2_Witness ==
  /\ Done(1) /\ ~result[1].success /\ result[1].code = "ERR_TRANSCRIPTION_FAILED"
  /\ Cardinality(CallsOf(1, "transcribe", 0)) = 2
  /\ Len(assessments) > 0

\* C3: when the recomputation of the aggregates fails (the history read, the
\* read inside calculateStreak, or the update of the profile), the assessment
\* appended just before is still in the collection, unchanged.
C3_RecordSurvivesAggregateFailure ==
  \A p \in Procs :
    (\E o \in StoreOps \ {<<"add", 0>>} : \E i \in CallsOf(p, o[1], o[2]) : ~calls[p][i].ok)
      => RecordKept(p)

\* C3 witness: the update of the profile failed on every attempt and the
\* invocation is over.
C3_Witness ==
  /\ Done(1) /\ OpFailed(1, "update", 0)
  /\ users[params[1].userId] # NoDoc
  /\ RecordKept(1)

\* C4: an invocation in which a collaborator operation ended in failure
\* (retries included) does not return success.
C4_FailurePropagates ==
  \A p \in Procs :
    (Done(p) /\ \E o \in AllOps : OpFailed(p, o[1], o[2])) => ~result[p].success

\* All the assessments of user u.
AllOf(u) == {a \in {assessments[i] : i \in 1..Len(assessments)} : a.userId = u}

\* C5: the avgScore that step 5 writes is the mean (to the one decimal the
\* code keeps) of the scores of all the assessments stored for the user,
\* however many there are, the one just appended included.
C5_AverageOfAllRecords ==
  \A p \in Procs :
    (Done(p) /\ Succeeded(p, "update", 0)) =>
      users[params[p].userId].avgScore = AverageOf(AllOf(params[p].userId))

\* C6: an invocation that returns success has appended exactly one assessment,
\* retried writes included; the assessmentId returned is the id the store gave
\* that document, and the document holds the score, transcript, feedback,
\* strengths and weakAreas returned.
C6_ExactlyOneRecord ==
  \A p \in Procs :
    (Done(p) /\ result[p].success) =>
      LET d == result[p].data
          mine == {i \in 1..Len(assessments) : assessments[i].id = d.assessmentId}
      IN  /\ Len(assessments) = Len(before[p].assessments) + 1
          /\ Cardinality({i \in CallsOf(p, "add", 0) : calls[p][i].ok}) = 1
          /\ Cardinality(mine) = 1
          /\ \A j \in 1..Len(before[p].assessments) :
               before[p].assessments[j].id # d.assessmentId
          /\ \A i \in mine :
               /\ assessments[i].userId = params[p].userId
               /\ assessments[i].score = d.score
               /\ assessments[i].transcript = d.transcript
               /\ assessments[i].feedback = d.feedback
               /\ assessments[i].strengths = d.strengths
               /\ assessments[i].weakAreas = d.weakAreas

\* C6 witness: success after the add had to be retried.
C6_Witness ==
  /\ Done(1) /\ result[1].success
  /\ \E i \in CallsOf(1, "add", 0) : ~calls[1][i].ok
  /\ result[1].data.score = 85

\* The calls and sleeps of one operation, from its first call to its last.
Segment(p, op, n) ==
  LET k == CallsOf(p, op, n)
      lo == CHOOSE i \in k : \A j \in k : i <= j
      hi == CHOOSE i \in k : \A j \in k : j <= i
  IN  SubSeq(calls[p], lo, hi)

\* C7 (as claimed): a write that fails on every attempt is given up after
\* exactly 3 attempts; a 4th attempt is never made.
C7_ThreeAttempts ==
  \A p \in Procs : \A o \in {<<"add", 0>>, <<"update", 0>>} :
    /\ Cardinality(CallsOf(p, o[1], o[2])) <= 3
    /\ OpFailed(p, o[1], o[2]) => Cardinality(CallsOf(p, o[1], o[2])) = 3

\* C7 (amended): a store operation that fails on every attempt is given up
\* after exactly 4 attempts (the first one and 3 retries), with waits of 100,
\* 200 and 400 ms between successive attempts; a 5th attempt is never made; a
\* failed add makes storeAssessment, and assessVoice, return
\* ERR_DATABASE_ERROR.
C7_FourAttempts ==
  \A p \in Procs : \A o \in StoreOps :
    /\ Cardinality(CallsOf(p, o[1], o[2])) <= 4
    /\ OpFailed(p, o[1], o[2]) =>
         Segment(p, o[1], o[2]) =
           <<Ev(o[1], FALSE, o[2]), Ev("sleep", TRUE, 100),
             Ev(o[1], FALSE, o[2]), Ev("sleep", TRUE, 200),
             Ev(o[1], FALSE, o[2]), Ev("sleep", TRUE, 400),
             Ev(o[1], FALSE, o[2])>>
    /\ OpFailed(p, "add", 0) =>
         Done(p) /\ ~result[p].success /\ result[p].code = "ERR_DATABASE_ERROR"

\* C7 witness: the add failed on every attempt and the invocation returned.
C7_Witness ==
  /\ Done(1) /\ OpFailed(1, "add", 0)
  /\ result[1].code = "ERR_DATABASE_ERROR"

\* C8: once an attempt of the add succeeds, after earlier attempts failed, the
\* operation is over with the generated id, no further attempt is made, the
\* document is stored, and assessVoice returns no error.
C8_SuccessAfterRetries ==
  \A p \in Procs : \A i \in CallsOf(p, "add", 0) :
    calls[p][i].ok =>
      /\ \A j \in CallsOf(p, "add", 0) : j <= i
      /\ pc[p] # "store"
      /\ RecordKept(p)
      /\ Done(p) => result[p].success /\ result[p].data.assessmentId = assessmentId[p]

\* C8 witness: the add failed twice, succeeded at the third attempt, and the
\* invocation returned.
C8_Witness ==
  /\ Done(1)
  /\ Cardinality(CallsOf(1, "add", 0)) = 3
  /\ Succeeded(1, "add", 0)
  /\ result[1].success

\* C9: transcribe and grade call their collaborator at most twice: once when
\* the first call succeeds, twice when it fails; the operation succeeds iff one
\* of the calls succeeded, and otherwise the outcome is
\* ERR_TRANSCRIPTION_FAILED, respectively ERR_GRADING_FAILED.
C9_AtMostOneRetry ==
  \A p \in Procs : \A op \in {"transcribe", "grade"} :
    LET k == CallsOf(p, op, 0)
        first == CHOOSE i \in k : \A j \in k : i <= j
    IN  /\ Cardinality(k) <= 2
        /\ (k # {} /\ pc[p] # PcOf(op, 0)) =>
             /\ calls[p][first].ok => Cardinality(k) = 1
             /\ ~calls[p][first].ok => Cardinality(k) = 2
             /\ ~Succeeded(p, op, 0) =>
                  Done(p) /\ ~result[p].success /\ result[p].code = CodeOf(op)
             /\ Succeeded(p, op, 0) =>
                  /\ ~(Done(p) /\ ~result[p].success /\ result[p].code = CodeOf(op))
                  /\ op = "transcribe" => CallsOf(p, "grade", 0) # {} \/ pc[p] = "grade"
                  /\ op = "grade" => graded[p] # None

\* C9 witness: the first grading call failed, the second succeeded.
C9_Witness ==
  /\ Cardinality(CallsOf(1, "grade", 0)) = 2
  /\ Succeeded(1, "grade", 0)
  /\ Done(1)
  /\ Cardinality(CallsOf(1, "transcribe", 0)) = 2

\* The error kind of the specification that an error code stands for.
ErrorKind(r) ==
  CASE r.code = "ERR_INVALID_INPUT" -> "InvalidInput"
    [] r.code = "ERR_TRANSCRIPTION_FAILED" -> "TranscriptionFailed"
    [] r.code = "ERR_GRADING_FAILED" -> "GradingFailed"
    [] r.code = "ERR_DATABASE_ERROR" -> "StoreUnavailable"

\* C10: for audio of zero length assessVoice returns the EmptyAudio error
\* kind, calls neither the transcription nor the grading collaborator, and
\* stores nothing.
C10_EmptyAudio ==
  \A p \in Procs :
    (Done(p) /\ params[p] # None /\ params[p].audioBuffer = 0) =>
      /\ ~result[p].success
      /\ ErrorKind(result[p]) = "EmptyAudio"
      /\ calls[p] = <<>>
      /\ assessments = before[p].assessments

\* C11: a call whose parameters fail a structural check (empty identity,
\* lessonDay < 1, unsupported targetLanguage, empty lessonWords) returns
\* ERR_INVALID_INPUT having called no collaborator, slept for no retry, and
\* left the store as it was.
C11_InvalidInputBeforeAnyCall ==
  \A p \in Procs :
    (/\ Done(p) /\ params[p] # None
     /\ \/ params[p].userId = ""
        \/ params[p].lessonDay < 1
        \/ params[p].targetLanguage \notin Languages
        \/ params[p].lessonWords < 1) =>
      /\ ~result[p].success
      /\ result[p].code = "ERR_INVALID_INPUT"
      /\ calls[p] = <<>>
      /\ attempt[p] = 0
      /\ assessments = before[p].assessments
      /\ users = before[p].users

\* C11 witness: a call without lesson words has returned.
C11_Witness ==
  /\ Done(1)
  /\ params[1].lessonWords = 0
  /\ params[1].userId # "" /\ params[1].audioBuffer > 0
  /\ result[1].code = "ERR_INVALID_INPUT"

\* The length of the run of consecutive days that ends on the latest day of S.
BackwardRun(S) ==
  LET m == CHOOSE d \in S : \A e \in S : e <= d
  IN  CHOOSE k \in 1..Cardinality(S) :
        /\ \A i \in 0..(k - 1) : (m - i) \in S
        /\ (m - k) \notin S

\* C12: once its read has succeeded, calculateStreak returns the length of the
\* run of consecutive calendar days counted backward from the most recent day
\* among the days of all the stored assessments of the user and the date
\* given; it is at least 1.
C12_StreakIsBackwardRun ==
  \A p \in Procs :
    (Succeeded(p, "query", StreakLimit) /\ pc[p] # "streakRead") =>
      /\ streak[p] >= 1
      /\ streak[p] =
           BackwardRun({a.timestamp.day : a \in AllOf(params[p].userId)} \cup {asOf[p]})

\* C13: no step of assessVoice, of lesson completion, of language selection
\* or change, of upsertUser or of updateUserStats changes or removes a stored
\* assessment: every step leaves the documents already in the collection as
\* they are, in place, so the collection (and the set of documents of each
\* user) only grows.
C13_AppendOnly ==
  [][/\ Len(assessments') >= Len(assessments)
     /\ \A i \in 1..Len(assessments) : assessments'[i] = assessments[i]]_vars

\* C13 witness: an assessment of u1 was appended and a language change of u1
\* was written, and the log still starts with the two earlier assessments.
C13_Witness ==
  /\ Len(assessments) = 3
  /\ assessments[3].userId = "u1"
  /\ hs["h1"].ack = "Language updated!" /\ hs["h1"].userId = "u1"
  /\ users["u1"].targetLanguage = "fr"
  /\ Done(1)
  /\ SubSeq(assessments, 1, 2) = History(2)

\* C15: a successful upsertUser on an existing profile leaves every field that
\* the profile passed does not contain (streak, avgScore, totalLessons,
\* lessonDay) with the value stored before the write.
C15_UpsertKeepsOtherFields ==
  [][\A h \in Handlers :
       LET u == hs[h].userId IN
       (/\ hs[h].pc = "upsert" /\ hs'[h].pc = "idle"
        /\ hs'[h].ack \in {"ok", "Language selected!"}
        /\ users[u] # NoDoc) =>
         \A f \in ProfileFields \ DOMAIN hs[h].data : users'[u][f] = users[u][f]]_vars

\* The error codes assessVoice returns.
ErrorCodes ==
  {"ERR_INVALID_INPUT", "ERR_TRANSCRIPTION_FAILED", "ERR_GRADING_FAILED",
   "ERR_DATABASE_ERROR"}

\* C14: an invocation ends only by returning an outcome, and every outcome is
\* either a success with exactly the data fields assessmentId, score,
\* transcript, feedback, strengths, weakAreas and neither error nor code, or a
\* failure with exactly an error message and an error code and no data; an
\* exception thrown inside assessVoice ends as a failure outcome too.
C14_OutcomeShape ==
  \A p \in Procs :
    /\ pc[p] \in {"off", "idle", "transcribe", "grade", "store", "readAll", "streakRead",
                  "update", "done"}
    /\ Done(p) <=> result[p] # None
    /\ Done(p) =>
         LET r == result[p] IN
         \/ /\ DOMAIN r = {"success", "data"}
            /\ r.success = TRUE
            /\ DOMAIN r.data = {"assessmentId", "score", "transcript", "feedback",
                                "strengths", "weakAreas"}
         \/ /\ DOMAIN r = {"success", "error", "code"}
            /\ r.success = FALSE
            /\ r.error # ""
            /\ r.code \in ErrorCodes

\* C14 witness: a call without an argument threw inside assessVoice and came
\* back as a failure outcome.
C14_Witness ==
  /\ Done(1) /\ params[1] = None
  /\ ~result[1].success
  /\ result[1].code = "ERR_GRADING_FAILED"

\* C16: parseGradingResponse returns a structured result for every text (and
\* for a response that is no text), and its score is an integer from 0 to
\* 100: a matched number above 100 gives 100.
C16_ParseTotalInRange ==
  (fnCall # None /\ fnCall.fn = "parse") =>
    LET r == parseGradingResponse(fnCall.arg)
        m == IF fnCall.arg = NullText THEN <<>> ELSE ScoreMatch(fnCall.arg)
    IN  /\ DOMAIN r = {"score", "feedback", "strengths", "weakAreas"}
        /\ r.score \in 0..100
        /\ (m # <<>> /\ ParseInt(m, 0) > 100) => r.score = 100
        /\ (m # <<>> /\ ParseInt(m, 0) <= 100) => r.score = ParseInt(m, 0)
        /\ m = <<>> => r.score = 0
        /\ fnCall.out # None => fnCall.out = r

\* C16 witness: the text "SCORE: 159/100" was parsed, to score 100.
C16_Witness ==
  /\ fnCall # None /\ fnCall.fn = "parse" /\ fnCall.out # None
  /\ fnCall.arg = <<"SCORE:", SP, "1", "5", "9", "/100">>
  /\ fnCall.out.score = 100

\* C18: for a text with the four labelled sections, strengths is the list of
\* the trimmed, non-empty, comma-separated items of the STRENGTHS section and
\* weakAreas that of the WEAK_AREAS section, in order, each section running to
\* the next label or to the end of the text.
C18_ListsAreSections ==
  (/\ fnCall # None /\ fnCall.fn = "parse" /\ fnCall.out # None
   /\ fnCall.arg # NullText
   /\ \A l \in Labels : \E i \in 1..Len(fnCall.arg) : IsLabel(fnCall.arg[i], l)) =>
    LET s == fnCall.arg
        first(label) == CHOOSE h \in 1..Len(s) :
                          IsLabel(s[h], label) /\ \A j \in 1..(h - 1) : ~IsLabel(s[j], label)
        ends(i) == {j \in (i + 1)..Len(s) : \E l \in Labels : IsLabel(s[j], l)}
        end(i) == IF ends(i) = {} THEN Len(s) + 1
                  ELSE CHOOSE j \in ends(i) : \A k \in ends(i) : j <= k
        section(label) == SubSeq(s, first(label) + 1, end(first(label)) - 1)
    IN  /\ fnCall.out.strengths = ListOf(section("STRENGTHS:"))
        /\ fnCall.out.weakAreas = ListOf(section("WEAK_AREAS:"))

\* C17: when the grading response lacks a SCORE section, parsing returns
\* score 0; the missing score is no ground for an error (the document to
\* store is valid exactly when it would be with a matched score), and when
\* the document is valid the pipeline goes on to the add: the only failure
\* left is a failed add, and a successful add has stored a record with
\* score 0, which is also the score returned.
C17_MissingScoreIsZero ==
  \A p \in Procs :
    (/\ graded[p] # None
     /\ gradingResult[p] = NullText \/ ScoreMatch(gradingResult[p]) = <<>>) =>
      LET a == assessmentData[p]
      IN  /\ graded[p] = parseGradingResponse(gradingResult[p])
          /\ graded[p].score = 0
          /\ a.score = 0
          /\ assessmentSchema(a) = assessmentSchema([a EXCEPT !.score = 85])
          /\ assessmentSchema(a) =>
                /\ pc[p] = "store" \/ CallsOf(p, "add", 0) # {}
                /\ Succeeded(p, "add", 0) =>
                      \E i \in 1..Len(assessments) :
                        /\ assessments[i].id = assessmentId[p]
                        /\ assessments[i].userId = params[p].userId
                        /\ assessments[i].score = 0
                /\ (Done(p) /\ ~result[p].success) =>
                      /\ result[p].code = "ERR_DATABASE_ERROR"
                      /\ ~Succeeded(p, "add", 0)
                /\ (Done(p) /\ result[p].success) => result[p].data.score = 0

\* C17 witness: a response without SCORE was graded, stored with score 0 and
\* returned as a success with score 0.
C17_Witness ==
  /\ Done(1) /\ result[1].success
  /\ gradingResult[1] = NoScore
  /\ result[1].data.score = 0
  /\ \E i \in 1..Len(assessments) :
       assessments[i].id = result[1].data.assessmentId /\ assessments[i].score = 0

\* C19: for a (language, day) pair absent from the catalog (an unknown
\* language, or a known language without that day) getLesson fails with the
\* lesson-not-found code; for a present entry that does not have exactly 5
\* words it fails with another code, that of invalid content; and a lesson
\* returned as success has exactly 5 words.
C19_LessonLookup ==
  (fnCall # None /\ fnCall.fn = "getLesson" /\ fnCall.out # None) =>
    LET a == fnCall.arg
        r == fnCall.out
        inCatalog == /\ a.languageCode \in DOMAIN languages
                     /\ a.lessonDay \in DOMAIN languages[a.languageCode].lessons
    IN  IF ~inCatalog
        THEN ~r.success /\ r.code = "ERR_LESSON_NOT_FOUND"
        ELSE LET lesson == languages[a.languageCode].lessons[a.lessonDay]
             IN  IF lesson.hasWords /\ lesson.words = 5
                 THEN r.success /\ r.data.words = 5
                 ELSE ~r.success /\ r.code # "ERR_LESSON_NOT_FOUND"

\* C20: a tool call with exactly the required parameters (a user id, a
\* lesson day of at least 1, a supported language, a URL that downloads to
\* non-empty audio) whose collaborators all succeeded is answered with
\* success and the fields score, feedback, transcript, strengths, weakAreas
\* and assessmentId.
C20_RequiredParametersSuffice ==
  \A p \in Procs :
    (/\ tool[p] # None /\ tool[p].reply # None /\ tool[p].arguments # None
     /\ DOMAIN tool[p].arguments = Required
     /\ tool[p].arguments.userId # ""
     /\ tool[p].arguments.lessonDay >= 1
     /\ tool[p].arguments.targetLanguage \in Languages
     /\ tool[p].arguments.audioUrl # ""
     /\ params[p] # None /\ params[p].audioBuffer >= 1
     /\ \A i \in 1..Len(calls[p]) : calls[p][i].ok) =>
      /\ tool[p].reply.success
      /\ DOMAIN tool[p].reply =
           {"success", "score", "feedback", "transcript", "strengths", "weakAreas",
            "assessmentId"}

\* C26: when the transcription succeeds with an empty or whitespace-only
\* transcript, the invocation does not fail at the transcription stage and
\* the grading collaborator is called; when the grading and the store then
\* succeed too (and the graded result would be accepted with a spoken
\* transcript), the record is persisted and success is returned.
C26_BlankTranscriptPassesThrough ==
  \A p \in Procs :
    (Done(p) /\ params[p] # None /\ Succeeded(p, "transcribe", 0) 
        /\ \A i \in 1..Len(transcript[p]) : IsSpace(transcript[p][i])) =>
      /\ result[p].success \/ result[p].code # "ERR_TRANSCRIPTION_FAILED"
      /\ CallsOf(p, "grade", 0) # {}
      /\ (/\ Succeeded(p, "grade", 0)
          /\ assessmentSchema([assessmentData[p] EXCEPT !.transcript = <<"hola">>])
          /\ \A i \in CallsOf(p, "add", 0) : calls[p][i].ok) =>
            /\ result[p].success
            /\ result[p].data.transcript = transcript[p]
            /\ \E i \in 1..Len(assessments) :
                 /\ assessments[i].id = result[p].data.assessmentId
                 /\ assessments[i].transcript = transcript[p]

\* C27: an invocation that has called the transcription or the grading
\* collaborator does not end with ERR_INVALID_INPUT.
C27_InvalidInputOnlyAtEntry ==
  \A p \in Procs :
    (Done(p) /\ ~result[p].success /\ result[p].code = "ERR_INVALID_INPUT") =>
      CallsOf(p, "transcribe", 0) = {} /\ CallsOf(p, "grade", 0) = {}

\* C30: when step 6 has written the statistics, the stored streak is the
\* streak of the stored log of the user: the run of consecutive days that
\* ends on the day of the computation.
C30_WrittenStreakIsComputed ==
  \A p \in Procs :
    (Done(p) /\ params[p] # None /\ Succeeded(p, "update", 0)) =>
      users[params[p].userId].streak =
        BackwardRun({a.timestamp.day : a \in AllOf(params[p].userId)} \cup {asOf[p]})

\* Handler h ends the store operation it has under way at `where`.
Ends(h, kind, where) ==
  /\ hs[h].kind = kind /\ hs[h].pc = where
  /\ hs'[h].pc = "idle"

\* C23: the write of a lesson completion that is acknowledged as completed
\* increases the stored totalLessons of the user by exactly 1, whatever the
\* other handler executions did in between.
C23_CompletionCountsOnce ==
  [][\A h \in Handlers :
       (Ends(h, "complete", "update") /\ hs'[h].ack = "Lesson completed!") =>
         users'[hs[h].userId].totalLessons = users[hs[h].userId].totalLessons + 1]_vars

\* C24: the write of a successful language change sets targetLanguage to
\* the language selected and lessonDay to 1 and leaves everything else as it
\* was: the other fields of the profile, the other profiles, the
\* assessments; a language change whose update fails leaves the profiles
\* as they were.
C24_LanguageChangeFrame ==
  [][\A h \in Handlers :
       Ends(h, "lang", "update") =>
         IF hs'[h].ack = "Language updated!"
         THEN /\ users' = [users EXCEPT ![hs[h].userId] =
                             [@ EXCEPT !.targetLanguage = hs[h].data.targetLanguage,
                                       !.lessonDay = 1]]
              /\ \A f \in {"name", "streak", "avgScore", "totalLessons", "settings"} :
                   users'[hs[h].userId][f] = users[hs[h].userId][f]
              /\ assessments' = assessments
         ELSE users' = users /\ assessments' = assessments]_vars

\* C24 witness: a lesson was completed, then the language was changed to
\* French: day 1 again, the counters as they were.
C24_Witness ==
  /\ hs["h1"].kind = "lang" /\ hs["h1"].ack = "Language updated!"
  /\ users["u1"] = [Profile("fr", 1, 2, 2, 700) EXCEPT !.settings = Settings]
  /\ Len(assessments) = 2

\* C28: the write of a lesson completion does not lower the stored
\* lessonDay of the user, also when the button pressed is that of an earlier
\* lesson.
C28_LessonDayNeverDecreases ==
  [][\A h \in Handlers :
       (Ends(h, "complete", "update") /\ hs'[h].ack = "Lesson completed!") =>
         users'[hs[h].userId].lessonDay >= users[hs[h].userId].lessonDay]_vars

\* C29: no step of a language-selection callback for a user with a stored
\* profile sets a streak, an avgScore or a totalLessons that was not 0 to 0,
\* whatever getUser answered.
C29_SelectionKeepsProgress ==
  [][\A h \in Handlers :
       (hs[h].kind = "lang" /\ hs'[h] # hs[h] /\ users[hs[h].userId] # NoDoc) =>
         \A f \in {"streak", "avgScore", "totalLessons"} :
           users[hs[h].userId][f] # 0 => users'[hs[h].userId][f] # 0]_vars

\* C25: an invocation makes at most 2 transcription calls, at most 2 grading
\* calls and at most MaxRetries + 1 attempts of each store operation; it has
\* an outcome only once no call of it is under way; and every invocation
\* that was entered eventually returns.
C25_Terminates ==
  /\ [](\A p \in Procs :
          /\ Cardinality(CallsOf(p, "transcribe", 0)) <= 2
          /\ Cardinality(CallsOf(p, "grade", 0)) <= 2
          /\ \A o \in StoreOps : Cardinality(CallsOf(p, o[1], o[2])) <= MaxRetries + 1
          /\ result[p] # None <=> Done(p)
          /\ Done(p) => pc[p] \notin {"transcribe", "grade", "store", "readAll",
                                   "streakRead", "update"})
  /\ \A p \in Procs :
       pc[p] \in {"transcribe", "grade", "store", "readAll", "streakRead", "update"}
         ~> Done(p)

\* C25 witness: an invocation returned after two transcription calls, two
\* grading calls and three attempts of the add.
C25_Witness ==
  /\ Done(1) /\ result[1].success
  /\ Cardinality(CallsOf(1, "transcribe", 0)) = 2
  /\ Cardinality(CallsOf(1, "grade", 0)) = 2
  /\ Cardinality(CallsOf(1, "add", 0)) = 3

\* C22: when two concurrent invocations have returned and every
\* collaborator call of both succeeded, both outcomes are successes with
\* distinct assessment ids, and the store holds, besides the earlier
\* documents, one document for each with the user, score, transcript and
\* feedback of that invocation.
C22_ConcurrentInvocationsIndependent ==
  (\A p \in Procs : /\ Done(p) /\ params[p] # None
                    /\ \A i \in 1..Len(calls[p]) : calls[p][i].ok) =>
    /\ \A p \in Procs : result[p].success
    /\ \A p, q \in Procs :
         p # q => result[p].data.assessmentId # result[q].data.assessmentId
    /\ Len(assessments) = Len(before[1].assessments) + Cardinality(Procs)
         \/ Len(assessments) = Len(before[2].assessments) + Cardinality(Procs)
    /\ \A p \in Procs :
         \E i \in 1..Len(assessments) :
           /\ assessments[i].id = result[p].data.assessmentId
           /\ assessments[i].userId = params[p].userId
           /\ assessments[i].score = graded[p].score
           /\ assessments[i].score = result[p].data.score
           /\ assessments[i].transcript = transcript[p]
           /\ assessments[i].feedback = graded[p].feedback

\* C21: an invocation that runs on its own, from a store whose statistics
\* are stale, and whose step 6 succeeds (both reads and the update) leaves
\* the stored avgScore equal to the mean of all the stored scores of the
\* user and the stored streak equal to the streak of the whole log.
C21_AggregatesSelfHeal ==
  \A p \in Procs :
    (/\ Done(p) /\ params[p] # None
     /\ Succeeded(p, "query", DefaultLimit) /\ Succeeded(p, "query", StreakLimit)
     /\ Succeeded(p, "update", 0)) =>
      /\ users[params[p].userId].avgScore = AverageOf(AllOf(params[p].userId))
      /\ users[params[p].userId].streak =
           BackwardRun({a.timestamp.day : a \in AllOf(params[p].userId)} \cup {asOf[p]})

====
